---------------------------- MODULE Spec2Model ----------------------------
(***************************************************************************)
(* Model of the product catalog service of store_api_tdd:                  *)
(*   src/store/schemas/product.py      the views of a product and the      *)
(*                                     Decimal -> Decimal128 conversion    *)
(*   src/store/controllers/product.py  the five route handlers             *)
(* The usecase layer (store.usecases.product), the base schemas            *)
(* (store.schemas.base) and the document store are not part of the         *)
(* sources at hand; they are modelled from the written specification.      *)
(***************************************************************************)
EXTENDS Integers, Sequences, FiniteSets, TLC

(***************************************************************************)
(* Bounds of the model.                                                    *)
(***************************************************************************)
MaxProducts == 2    \* products the server creates (ids 1..MaxProducts)
MaxClock    == 1    \* readings of the server clock are 0..MaxClock
MaxOps      == 3    \* requests accepted in one behaviour
MaxCoeffLen == 35   \* longest decimal coefficient fed to the conversion

(***************************************************************************)
(* decimal128: 34 significant digits, exponent bias 6176 (bson.Decimal128, *)
(* imported at product.py:3).                                              *)
(***************************************************************************)
MAX_DIGITS    == 34
EXPONENT_BIAS == 6176

--------------------------------------------------------------------------
(***************************************************************************)
(* decimal.Decimal: [sign, digits, exp], digits without leading zeros      *)
(* (zero is <<0>>).  Text is a sequence of one-character strings.          *)
(***************************************************************************)
DigitChars == <<"0", "1", "2", "3", "4", "5", "6", "7", "8", "9">>

DigitChar(d) == DigitChars[d + 1]

CharDigit(ch) == CHOOSE d \in 0..9 : DigitChars[d + 1] = ch

IsDigitChar(ch) == \E d \in 0..9 : DigitChars[d + 1] = ch

DigitsText(ds) == [i \in 1..Len(ds) |-> DigitChar(ds[i])]

Zeros(n) == [i \in 1..n |-> "0"]

RECURSIVE NatDigits(_)
NatDigits(n) == IF n < 10 THEN <<n>> ELSE Append(NatDigits(n \div 10), n % 10)

\* "%+d" % n
SignedIntText(n) ==
    IF n < 0 THEN <<"-">> \o DigitsText(NatDigits(-n))
             ELSE <<"+">> \o DigitsText(NatDigits(n))

\* Decimal.__str__: plain notation when exp <= 0 and the number has more
\* than -6 digits left of the point, scientific notation otherwise.
DecStr(d) ==
    LET int        == DigitsText(d.digits)
        n          == Len(int)
        leftdigits == d.exp + n
        dotplace   == IF d.exp <= 0 /\ leftdigits > -6 THEN leftdigits ELSE 1
        intpart    == IF dotplace <= 0 THEN <<"0">>
                      ELSE IF dotplace >= n THEN int \o Zeros(dotplace - n)
                      ELSE SubSeq(int, 1, dotplace)
        fracpart   == IF dotplace <= 0 THEN <<".">> \o Zeros(-dotplace) \o int
                      ELSE IF dotplace >= n THEN <<>>
                      ELSE <<".">> \o SubSeq(int, dotplace + 1, n)
        exppart    == IF leftdigits = dotplace THEN <<>>
                      ELSE <<"E">> \o SignedIntText(leftdigits - dotplace)
        signpart   == IF d.sign = 1 THEN <<"-">> ELSE <<>>
    IN  signpart \o intpart \o fracpart \o exppart

\* int(str): the digits without their leading zeros
RECURSIVE StripLeadingZeros(_)
StripLeadingZeros(ds) ==
    IF Len(ds) > 1 /\ ds[1] = 0 THEN StripLeadingZeros(Tail(ds)) ELSE ds

RECURSIVE DigitsNat(_)
DigitsNat(ds) ==
    IF ds = <<>> THEN 0 ELSE 10 * DigitsNat(SubSeq(ds, 1, Len(ds) - 1)) + ds[Len(ds)]

\* the longest prefix of text made of digits
RECURSIVE DigitRun(_)
DigitRun(text) ==
    IF text # <<>> /\ IsDigitChar(text[1])
    THEN <<CharDigit(text[1])>> \o DigitRun(Tail(text))
    ELSE <<>>

Drop(text, n) == SubSeq(text, n + 1, Len(text))

\* Decimal(text): sign, integer part, fraction, exponent
ParseDecimal(text) ==
    LET neg     == text # <<>> /\ text[1] = "-"
        body    == IF neg THEN Tail(text) ELSE text
        intpart == DigitRun(body)
        rest1   == Drop(body, Len(intpart))
        hasfrac == rest1 # <<>> /\ rest1[1] = "."
        frac    == IF hasfrac THEN DigitRun(Tail(rest1)) ELSE <<>>
        rest2   == IF hasfrac THEN Drop(rest1, 1 + Len(frac)) ELSE rest1
        hasexp  == rest2 # <<>> /\ rest2[1] = "E"
        expneg  == hasexp /\ rest2[2] = "-"
        expabs  == IF hasexp THEN DigitsNat(DigitRun(Drop(rest2, 2))) ELSE 0
        expval  == IF expneg THEN -expabs ELSE expabs
    IN  [sign   |-> IF neg THEN 1 ELSE 0,
         digits |-> StripLeadingZeros(intpart \o frac),
         exp    |-> expval - Len(frac)]

\* decimal.Inexact, raised by the trapping context
Inexact == [error |-> "Inexact"]

IsError(r) == "error" \in DOMAIN r

IsZeroDigits(ds) == \A i \in 1..Len(ds) : ds[i] = 0

\* Context.create_decimal under bson's decimal128 context (prec 34, Inexact
\* trapped): a coefficient longer than 34 digits is cut to 34 when the cut
\* digits are zeros and raises Inexact otherwise.
Dec128Context(d) ==
    LET n == Len(d.digits)
    IN  IF n <= MAX_DIGITS THEN d
        ELSE IF IsZeroDigits(SubSeq(d.digits, MAX_DIGITS + 1, n))
        THEN [d EXCEPT !.digits = SubSeq(d.digits, 1, MAX_DIGITS),
                       !.exp    = d.exp + (n - MAX_DIGITS)]
        ELSE Inexact

\* Decimal128(text): the packed value, kept as its three bit fields
Decimal128(text) ==
    LET d == Dec128Context(ParseDecimal(text))
    IN  IF IsError(d) THEN d
        ELSE [sign        |-> d.sign,
              significand |-> d.digits,
              biased_exp  |-> d.exp + EXPONENT_BIAS]

\* a conversion that first normalises the decimal (drops trailing zeros)
RECURSIVE StripTrailingZeros(_)
StripTrailingZeros(d) ==
    IF Len(d.digits) > 1 /\ d.digits[Len(d.digits)] = 0
    THEN StripTrailingZeros([d EXCEPT !.digits = SubSeq(d.digits, 1, Len(d.digits) - 1),
                                      !.exp    = d.exp + 1])
    ELSE d

convert_decimal_128_normalized(v) == Decimal128(DecStr(StripTrailingZeros(v)))

\* product.py:21-22
convert_decimal_128(v) == Decimal128(DecStr(v))

\* Decimal128.to_decimal()
to_decimal(d128) ==
    [sign   |-> d128.sign,
     digits |-> d128.significand,
     exp    |-> d128.biased_exp - EXPONENT_BIAS]

\* the way back, as the output views read a stored price: the text of the
\* stored value
storage_decimal_text(d128) == DecStr(to_decimal(d128))

--------------------------------------------------------------------------
(***************************************************************************)
(* Values the requests are drawn from.                                     *)
(***************************************************************************)
Clients    == {"a", "b"}
ServerIds  == 1..MaxProducts      \* the ids the server hands out
UnknownIds == {0}                 \* an id of the caller's making
Ids        == ServerIds \cup UnknownIds

Empty == <<>>                     \* a payload without keys

Dec(sign, digits, exp) == [sign |-> sign, digits |-> digits, exp |-> exp]

Price5    == Dec(0, <<5>>, 0)              \* 5
Price1999 == Dec(0, <<1, 9, 9, 9>>, -2)    \* 19.99
PriceNeg  == Dec(1, <<1>>, 0)              \* -1

CallerTimes == {-1}               \* a timestamp sent by a caller

\* request bodies of POST /: a sound one, one that breaks every constraint
\* the specification names, one without a name
CreationPayloads ==
    { [name |-> "Widget", quantity |-> 10, price |-> Price1999, status |-> TRUE],
      [name |-> "", quantity |-> -1, price |-> PriceNeg, status |-> FALSE],
      [quantity |-> 10, price |-> Price5, status |-> TRUE] }

\* request bodies of PATCH /{id}: every key may be left out, and keys the
\* update view does not know may be sent
UpdatePayloads ==
    { Empty,
      [quantity |-> 5],
      [status |-> FALSE],
      [quantity |-> -1, price |-> Price5] }
    \cup { [updated_at |-> t] : t \in CallerTimes }
    \cup { [status |-> FALSE, name |-> "Renamed", id |-> 0, created_at |-> t] :
             t \in CallerTimes }

\* query strings of GET /: floats, here whole numbers
Floats      == {5, 20}
QueryParams ==
    {lo @@ hi : lo \in {Empty} \cup {[price_min |-> x] : x \in Floats},
                hi \in {Empty} \cup {[price_max |-> x] : x \in Floats}}

Restrict(f, S) == [k \in DOMAIN f \cap S |-> f[k]]

NoDoc == [absent |-> TRUE]

IsDoc(d) == "id" \in DOMAIN d

Idle == [pc |-> "idle"]

--------------------------------------------------------------------------
(***************************************************************************)
(* The views, src/store/schemas/product.py.                                *)
(***************************************************************************)
ValidationError == [error |-> "ValidationError"]

ProductBaseFields == {"name", "quantity", "price", "status"}

\* a creation view whose status is always true
ProductIn_status_default(raw) ==
    IF ProductBaseFields \subseteq DOMAIN raw
    THEN [Restrict(raw, ProductBaseFields) EXCEPT !.status = TRUE]
    ELSE ValidationError

\* ProductBase / ProductIn: four required fields, Field(...) without any
\* constraint on their values; other keys are ignored.
ProductIn(raw) ==
    IF ProductBaseFields \subseteq DOMAIN raw
    THEN Restrict(raw, ProductBaseFields)
    ELSE ValidationError

\* ProductOut / ProductUpdateOut: the seven fields of a document, the price
\* read back as a Decimal
ProductOut(doc) ==
    [id         |-> doc.id,
     name       |-> doc.name,
     quantity   |-> doc.quantity,
     price      |-> to_decimal(doc.price),
     status     |-> doc.status,
     created_at |-> doc.created_at,
     updated_at |-> doc.updated_at]

ProductUpdateFields == {"quantity", "price", "status", "updated_at"}

Validated(raw, fields) ==
    LET body == Restrict(raw, fields)
    IN  IF "price" \in DOMAIN body
        THEN LET p == convert_decimal_128(body.price)
             IN  IF IsError(p) THEN p ELSE [body EXCEPT !.price = p]
        ELSE body

\* an update view that also takes created_at from the payload
ProductUpdate_with_created_at(raw) ==
    Validated(raw, ProductUpdateFields \cup {"created_at"})

\* an update view that fills every field the payload left out with a default
ProductUpdate_defaults(raw) ==
    Validated(raw, ProductUpdateFields)
    @@ [quantity |-> 0, price |-> convert_decimal_128(Dec(0, <<0>>, 0)), status |-> FALSE]

\* ProductUpdate: four optional fields; the view holds the fields the
\* payload set (the others are None and unset), the price through
\* convert_decimal_128.
ProductUpdate(raw) == Validated(raw, ProductUpdateFields)

--------------------------------------------------------------------------
(***************************************************************************)
(* The usecase mediator and the document store, after the specification    *)
(* (sections 4.3, 4.4 and 6).  A store maps every id to its document or    *)
(* to NoDoc.                                                               *)
(***************************************************************************)
NotFoundException  == [error |-> "NotFoundException"]
InsertionException == [error |-> "InsertionException"]

\* the price of a document in hundredths, for the store's comparisons
RECURSIVE Pow10(_)
Pow10(n) == IF n = 0 THEN 1 ELSE 10 * Pow10(n - 1)

Hundredths(d128) ==
    LET d == to_decimal(d128)
        m == DigitsNat(d.digits) * Pow10(d.exp + 2)
    IN  IF d.sign = 1 THEN -m ELSE m

\* create: a fresh id, created_at = updated_at = now, insert_one
usecase_create(st, body, id, now, inserted) ==
    IF ~inserted THEN InsertionException
    ELSE LET doc == [id         |-> id,
                     name       |-> body.name,
                     quantity   |-> body.quantity,
                     price      |-> Decimal128(DecStr(body.price)),
                     status     |-> body.status,
                     created_at |-> now,
                     updated_at |-> now]
         IN  [store |-> [st EXCEPT ![id] = doc], out |-> ProductOut(doc)]

\* get: find_one
usecase_get(st, id) ==
    IF IsDoc(st[id]) THEN [out |-> ProductOut(st[id])] ELSE NotFoundException

\* query: find_many with the bounds that are given
usecase_query(st, args) ==
    [out |-> { ProductOut(st[id]) : id \in
                { i \in Ids : /\ IsDoc(st[i])
                              /\ "price_min" \in DOMAIN args
                                   => Hundredths(st[i].price) >= 100 * args.price_min
                              /\ "price_max" \in DOMAIN args
                                   => Hundredths(st[i].price) <= 100 * args.price_max } }]

\* the update merge rule: the fields of the view that are set
build_patch(body) == body

\* update_one: the patch merged into the document, in one step
merge(doc, patch) ==
    [f \in DOMAIN doc \cup DOMAIN patch |->
        IF f \in DOMAIN patch THEN patch[f] ELSE doc[f]]

\* update: update_one and the merged document, or not found
usecase_update(st, id, body) ==
    IF IsDoc(st[id])
    THEN LET doc == merge(st[id], build_patch(body))
         IN  [store |-> [st EXCEPT ![id] = doc], out |-> ProductOut(doc)]
    ELSE NotFoundException

\* delete: delete_one, not found when it affected no document
usecase_delete(st, id) ==
    IF IsDoc(st[id]) THEN [store |-> [st EXCEPT ![id] = NoDoc]]
    ELSE NotFoundException

--------------------------------------------------------------------------
(***************************************************************************)
(* The route handlers, src/store/controllers/product.py.  Each turns the   *)
(* usecase's result into the response: the exception its except clause     *)
(* names becomes the HTTPException of that clause, any other exception     *)
(* leaves the handler (500).                                               *)
(***************************************************************************)
Caught(r, exc, code) ==
    IF IsError(r)
    THEN IF r = exc THEN [code |-> code, error |-> r.error]
                    ELSE [code |-> 500, error |-> r.error]
    ELSE Empty

\* post, lines 13-22
post_response(r) ==
    IF IsError(r) THEN Caught(r, InsertionException, 400)
    ELSE [code |-> 201, out |-> r.out]

\* get, lines 25-34
get_response(r) ==
    IF IsError(r) THEN Caught(r, NotFoundException, 404)
    ELSE [code |-> 200, out |-> r.out]

\* a query handler that hands its two bounds over crosswise
query_call_swapped(params) ==
    (IF "price_max" \in DOMAIN params THEN [price_min |-> params.price_max] ELSE Empty)
    @@ (IF "price_min" \in DOMAIN params THEN [price_max |-> params.price_min] ELSE Empty)

\* query, lines 37-44: the bounds given, each under its own name
query_call(params) == Restrict(params, {"price_min", "price_max"})

query_response(r) == [code |-> 200, out |-> r.out]

\* a patch handler that builds a fresh view holding the time alone
patch_stamp_alone(body, now) == [updated_at |-> now]

\* a patch handler that keeps an updated_at the caller sent
patch_stamp_unless_given(body, now) ==
    IF "updated_at" \in DOMAIN body THEN body ELSE [updated_at |-> now] @@ body

\* patch, line 55: body.updated_at = datetime.utcnow()
patch_stamp(body, now) == [updated_at |-> now] @@ body

\* a patch handler that answers a missing document with 400
patch_response_bad_request(r) ==
    IF IsError(r) THEN Caught(r, NotFoundException, 400)
    ELSE [code |-> 200, out |-> r.out]

\* patch, lines 53-60
patch_response(r) ==
    IF IsError(r) THEN Caught(r, NotFoundException, 404)
    ELSE [code |-> 200, out |-> r.out]

\* a delete handler that swallows the exception
delete_response_swallow(r) == [code |-> 204]

\* delete, lines 63-72
delete_response(r) ==
    IF IsError(r) THEN Caught(r, NotFoundException, 404)
    ELSE [code |-> 204]

--------------------------------------------------------------------------
(***************************************************************************)
(* The state.                                                              *)
(*   store     the documents                                               *)
(*   clock     the reading datetime.utcnow() gives                         *)
(*   inflight  per client, the PATCH request between its line 55 and its   *)
(*             storage call                                                *)
(*   ops       the number of requests accepted                             *)
(* and, recorded for the properties,                                       *)
(*   last      the request answered last, with its response                *)
(*   orig      per id, the creation input and the time of creation         *)
(*   touched   the ids updated or deleted since their creation             *)
(*   deleted   the ids whose deletion succeeded                            *)
(*   applied   per client, the patch it merged last                        *)
(* The decimal variables hold one run of the conversion.                   *)
(***************************************************************************)
VARIABLES store, clock, inflight, ops, last, orig, touched, deleted, applied,
          decIn, dec128, decBack, decPhase

vars == <<store, clock, inflight, ops, last, orig, touched, deleted, applied,
          decIn, dec128, decBack, decPhase>>

decVars == <<decIn, dec128, decBack, decPhase>>

hist == <<orig, touched, deleted, applied>>

Init ==
    /\ store = [id \in Ids |-> NoDoc]
    /\ clock = 0
    /\ inflight = [c \in Clients |-> Idle]
    /\ ops = 0
    /\ last = [op |-> "none"]
    /\ orig = [id \in Ids |-> NoDoc]
    /\ touched = {}
    /\ deleted = {}
    /\ applied = [c \in Clients |-> Idle]
    /\ decIn = Price5
    /\ dec128 = Empty
    /\ decBack = Empty
    /\ decPhase = "off"

\* the server clock moves on
Tick ==
    /\ clock < MaxClock
    /\ clock' = clock + 1
    /\ UNCHANGED <<store, inflight, ops, last, hist, decVars>>

FreshIds == {id \in ServerIds : ~IsDoc(orig[id])}

\* POST /: a payload that is no ProductIn is answered 422 before the handler
PostInvalid(raw) ==
    /\ ops < MaxOps
    /\ IsError(ProductIn(raw))
    /\ ops' = ops + 1
    /\ last' = [op |-> "post", raw |-> raw, code |-> 422,
                error |-> ProductIn(raw).error]
    /\ UNCHANGED <<store, clock, inflight, hist, decVars>>

\* POST /, lines 13-22
Post(raw, inserted) ==
    /\ ops < MaxOps
    /\ ~IsError(ProductIn(raw))
    /\ FreshIds # {}
    /\ LET id == CHOOSE i \in FreshIds : \A j \in FreshIds : i <= j
           r  == usecase_create(store, ProductIn(raw), id, clock, inserted)
       IN  /\ last' = post_response(r) @@ [op |-> "post", raw |-> raw, id |-> id]
           /\ IF IsError(r)
              THEN UNCHANGED <<store, orig>>
              ELSE /\ store' = r.store
                   /\ orig' = [orig EXCEPT ![id] =
                                 [id |-> id, raw |-> raw, created_at |-> clock]]
    /\ ops' = ops + 1
    /\ UNCHANGED <<clock, inflight, touched, deleted, applied, decVars>>

\* the ids a caller can name: those it was given, and any of its own making
KnownIds == {id \in ServerIds : IsDoc(orig[id])} \cup UnknownIds

\* GET /{id}, lines 25-34
Get(id) ==
    /\ ops < MaxOps
    /\ id \in KnownIds
    /\ last' = get_response(usecase_get(store, id))
               @@ [op |-> "get", id |-> id, existed |-> IsDoc(store[id]),
                   wasDeleted |-> id \in deleted, untouched |-> id \notin touched]
    /\ ops' = ops + 1
    /\ UNCHANGED <<store, clock, inflight, hist, decVars>>

\* GET /, lines 37-44
Query(params) ==
    /\ ops < MaxOps
    /\ last' = query_response(usecase_query(store, query_call(params)))
               @@ [op |-> "query", params |-> params]
    /\ ops' = ops + 1
    /\ UNCHANGED <<store, clock, inflight, hist, decVars>>

\* PATCH /{id}, up to the await of line 57: the body is validated and stamped
PatchBegin(c, id, raw) ==
    /\ ops < MaxOps
    /\ inflight[c] = Idle
    /\ id \in KnownIds
    /\ inflight' = [inflight EXCEPT ![c] =
                      [pc |-> "stamped", id |-> id, raw |-> raw, t |-> clock,
                       body |-> patch_stamp(ProductUpdate(raw), clock)]]
    /\ applied' = [c2 \in Clients |->
                      IF c2 = c \/ applied[c2] = Idle THEN Idle
                      ELSE [applied[c2] EXCEPT !.overlapped = FALSE]]
    /\ ops' = ops + 1
    /\ UNCHANGED <<store, clock, last, orig, touched, deleted, decVars>>

UserFields(body) == DOMAIN body \ {"updated_at"}

\* PATCH /{id}, lines 57-60: the storage call and the response
PatchStorage(c) ==
    /\ inflight[c] # Idle
    /\ LET req == inflight[c]
           id  == req.id
           r   == usecase_update(store, id, req.body)
           ok  == ~IsError(r)
           overlapping ==
               \E c2 \in Clients \ {c} :
                  \/ inflight[c2] # Idle /\ inflight[c2].id = id
                  \/ applied[c2] # Idle /\ applied[c2].id = id /\ applied[c2].overlapped
       IN  /\ store' = IF ok THEN r.store ELSE store
           /\ last' = patch_response(r)
                      @@ [op |-> "patch", id |-> id, raw |-> req.raw, t |-> req.t,
                          existed |-> IsDoc(store[id]), wasDeleted |-> id \in deleted,
                          pre |-> store[id],
                          post |-> IF ok THEN r.store[id] ELSE store[id]]
           /\ touched' = IF ok THEN touched \cup {id} ELSE touched
           /\ applied' = [applied EXCEPT ![c] =
                            IF ok THEN [id |-> id, raw |-> req.raw,
                                        overlapped |-> overlapping]
                                  ELSE Idle]
    /\ inflight' = [inflight EXCEPT ![c] = Idle]
    /\ UNCHANGED <<clock, ops, orig, deleted, decVars>>

\* DELETE /{id}, lines 63-72
Delete(id) ==
    /\ ops < MaxOps
    /\ id \in KnownIds
    /\ LET r  == usecase_delete(store, id)
           ok == ~IsError(r)
       IN  /\ store' = IF ok THEN r.store ELSE store
           /\ last' = delete_response(r)
                      @@ [op |-> "delete", id |-> id, existed |-> IsDoc(store[id]),
                          wasDeleted |-> id \in deleted]
           /\ touched' = IF ok THEN touched \cup {id} ELSE touched
           /\ deleted' = IF ok THEN deleted \cup {id} ELSE deleted
    /\ ops' = ops + 1
    /\ UNCHANGED <<clock, inflight, orig, applied, decVars>>

Next ==
    \/ Tick
    \/ \E raw \in CreationPayloads : PostInvalid(raw)
    \/ \E raw \in CreationPayloads, inserted \in BOOLEAN : Post(raw, inserted)
    \/ \E id \in Ids : Get(id)
    \/ \E params \in QueryParams : Query(params)
    \/ \E c \in Clients, id \in Ids, raw \in UpdatePayloads : PatchBegin(c, id, raw)
    \/ \E c \in Clients : PatchStorage(c)
    \/ \E id \in Ids : Delete(id)

Spec == Init /\ [][Next]_vars

--------------------------------------------------------------------------
(***************************************************************************)
(* One run of the precision adapter: a decimal is converted for storage    *)
(* and read back.                                                          *)
(***************************************************************************)
Ones(n) == [i \in 1..n |-> 1]

OneZeros(n) == [i \in 1..n |-> IF i = 1 THEN 1 ELSE 0]

CoeffInputs ==
    { <<0>>, <<5>>, <<1, 9, 9, 9>>, <<1, 9, 9, 9, 0>>, <<1, 0, 0>> }
    \cup { Ones(n) : n \in (MAX_DIGITS - 1)..MaxCoeffLen }
    \cup { OneZeros(n) : n \in (MAX_DIGITS - 1)..MaxCoeffLen }

ExpInputs == {-8, -3, -2, 0, 2}

DecInputs == { Dec(s, ds, e) : s \in {0, 1}, ds \in CoeffInputs, e \in ExpInputs }

InitDec ==
    /\ store = [id \in Ids |-> NoDoc]
    /\ clock = 0
    /\ inflight = [c \in Clients |-> Idle]
    /\ ops = 0
    /\ last = [op |-> "none"]
    /\ orig = [id \in Ids |-> NoDoc]
    /\ touched = {}
    /\ deleted = {}
    /\ applied = [c \in Clients |-> Idle]
    /\ decIn \in DecInputs
    /\ dec128 = Empty
    /\ decBack = Empty
    /\ decPhase = "input"

\* the update view's validator runs convert_decimal_128 on the price
DecConvert ==
    /\ decPhase = "input"
    /\ dec128' = convert_decimal_128(decIn)
    /\ decPhase' = IF IsError(dec128') THEN "rejected" ELSE "stored"
    /\ UNCHANGED <<store, clock, inflight, ops, last, hist, decIn, decBack>>

\* the stored value is read back as text
DecReadBack ==
    /\ decPhase = "stored"
    /\ decBack' = storage_decimal_text(dec128)
    /\ decPhase' = "read"
    /\ UNCHANGED <<store, clock, inflight, ops, last, hist, decIn, dec128>>

NextDec == DecConvert \/ DecReadBack

SpecDec == InitDec /\ [][NextDec]_vars

--------------------------------------------------------------------------
(***************************************************************************)
(* The properties.                                                         *)
(***************************************************************************)
UpdatableFields == {"quantity", "price", "status"}

\* the stored form of a value an update payload carries
StoredValue(f, v) == IF f = "price" THEN Decimal128(DecStr(v)) ELSE v

PatchDone == last.op = "patch" /\ last.code = 200

\* C1: a successful update sets exactly the updatable fields the payload
\* carries; every other stored field except updated_at keeps its value, and
\* no field is added or removed.
C1_UpdateChangesExactlySetFields ==
    PatchDone =>
        /\ DOMAIN last.post = DOMAIN last.pre
        /\ \A f \in DOMAIN last.pre \ {"updated_at"} :
              last.post[f] = IF f \in UpdatableFields \cap DOMAIN last.raw
                             THEN StoredValue(f, last.raw[f])
                             ELSE last.pre[f]

C1_Witness ==
    /\ PatchDone
    /\ last.raw = [quantity |-> -1, price |-> Price5]
    /\ last.pre.quantity = 10 /\ last.post.quantity = -1
    /\ to_decimal(last.pre.price) = Price1999 /\ to_decimal(last.post.price) = Price5
    /\ last.post.status = TRUE /\ last.post.name = "Widget"

\* C2: once an id is deleted it has no document again, every later get,
\* update and delete of it answers 404, and no query lists it.
C2_DeletionIsTerminal ==
    /\ \A id \in deleted : ~IsDoc(store[id])
    /\ (last.op \in {"get", "patch", "delete"} /\ last.wasDeleted)
          => last.code = 404 /\ last.error = "NotFoundException"
    /\ last.op = "query" => \A o \in last.out : o.id \notin deleted

C2_Witness ==
    /\ last.op = "delete" /\ last.wasDeleted /\ last.code = 404
    /\ last.id \in ServerIds /\ IsDoc(orig[last.id])

\* C3: update and delete of an id without a document fail with
\* NotFoundException, which the handler turns into 404.
C3_MissingIdIsNotFound ==
    (last.op \in {"patch", "delete"} /\ ~last.existed)
        => last.error = "NotFoundException" /\ last.code = 404

C3_Witness ==
    /\ last.op = "patch" /\ ~last.existed /\ last.id \in UnknownIds
    /\ last.code = 404

\* C4: a get of a created id that was neither updated nor deleted returns
\* the creation input's name, quantity, price and status, the id, and equal
\* timestamps.
C4_CreateThenGet ==
    (last.op = "get" /\ IsDoc(orig[last.id]) /\ last.untouched) =>
        /\ last.code = 200
        /\ last.out.id = last.id
        /\ \A f \in ProductBaseFields : last.out[f] = orig[last.id].raw[f]
        /\ last.out.created_at = orig[last.id].created_at
        /\ last.out.updated_at = last.out.created_at

C4_Witness ==
    /\ last.op = "get" /\ IsDoc(orig[last.id]) /\ last.untouched
    /\ last.code = 200
    /\ last.out.name = "" /\ last.out.price = PriceNeg /\ last.out.status = FALSE
    /\ last.out.created_at = 1

InRange(doc, params) ==
    /\ "price_min" \in DOMAIN params
          => Hundredths(doc.price) >= 100 * params.price_min
    /\ "price_max" \in DOMAIN params
          => Hundredths(doc.price) <= 100 * params.price_max

C6_InvalidNeverStored ==
    /\ \A id \in Ids :
          IsDoc(store[id]) =>
             /\ store[id].name # ""
             /\ store[id].quantity >= 0
             /\ to_decimal(store[id].price).sign = 0
    /\ (last.op = "post" /\ "name" \in DOMAIN last.raw /\ last.raw.name = "")
          => last.code = 422

\* C7: the patch of a request never holds id or created_at, and a stored
\* product keeps the id and created_at of its creation.
C7_IdAndCreatedAtImmutable ==
    /\ \A c \in Clients :
          inflight[c] # Idle =>
             {"id", "created_at"} \cap DOMAIN build_patch(inflight[c].body) = {}
    /\ \A id \in Ids :
          IsDoc(store[id]) =>
             /\ store[id].id = id
             /\ store[id].created_at = orig[id].created_at

C7_Witness ==
    /\ PatchDone
    /\ {"id", "created_at"} \subseteq DOMAIN last.raw
    /\ last.pre.status = TRUE /\ last.post.status = FALSE
    /\ last.post.created_at = orig[last.id].created_at
    /\ last.post.id = last.id

\* C8 as amended: after a successful update the stored and the returned
\* updated_at are the clock reading of that request, whatever the payload
\* held, and that reading is not earlier than created_at.
C8_UpdatedAtIsServerTime ==
    PatchDone =>
        /\ last.post.updated_at = last.t
        /\ last.out.updated_at = last.t
        /\ last.post.updated_at >= last.post.created_at

\* C8 as stated: ... and updated_at is later than created_at.
C8_UpdatedAtLaterThanCreatedAt ==
    PatchDone =>
        /\ last.post.updated_at = last.t
        /\ last.out.updated_at = last.t
        /\ last.post.updated_at > last.post.created_at

C8_Witness ==
    /\ PatchDone
    /\ "updated_at" \in DOMAIN last.raw
    /\ UserFields(last.raw) = {}
    /\ last.post.updated_at = last.t
    /\ last.post.updated_at # last.raw.updated_at
    /\ last.post.updated_at > last.post.created_at

\* C9 as amended: a decimal of at most 34 significant digits is stored as
\* that very decimal and reads back with its text unchanged; the
\* conversion rejects only decimals of more digits.
C9_RoundTripWithinPrecision ==
    /\ (decPhase \in {"stored", "read"} /\ Len(decIn.digits) <= MAX_DIGITS)
          => to_decimal(dec128) = decIn
    /\ (decPhase = "read" /\ Len(decIn.digits) <= MAX_DIGITS)
          => decBack = DecStr(decIn)
    /\ decPhase = "rejected" => Len(decIn.digits) > MAX_DIGITS

\* C9 as stated: every decimal reads back with its text unchanged.
C9_RoundTripAlways ==
    decPhase = "read" => decBack = DecStr(decIn)

C9_Witness ==
    /\ decPhase = "read"
    /\ decIn = Dec(0, <<1, 9, 9, 9, 0>>, -3)
    /\ decBack = <<"1", "9", ".", "9", "9", "0">>

Overlapped(c1, c2) ==
    /\ c1 # c2
    /\ applied[c1] # Idle /\ applied[c2] # Idle
    /\ applied[c1].id = applied[c2].id
    /\ applied[c1].overlapped /\ applied[c2].overlapped
    /\ UserFields(applied[c1].raw) \cap UserFields(applied[c2].raw) = {}

\* C10: after two overlapping updates of one document that set disjoint
\* fields, the document holds the values of both; an update answers 200 with
\* the merged document or 404 leaving no document, and a deleted id stays
\* without a document.
C10_NoLostUpdate ==
    /\ \A c1, c2 \in Clients :
          (Overlapped(c1, c2) /\ IsDoc(store[applied[c1].id])) =>
             \A f \in UpdatableFields \cap DOMAIN applied[c1].raw :
                store[applied[c1].id][f] = StoredValue(f, applied[c1].raw[f])
    /\ last.op = "patch" =>
          \/ /\ last.code = 200 /\ last.existed
             /\ last.out = ProductOut(last.post)
          \/ /\ last.code = 404 /\ ~last.existed /\ ~IsDoc(last.post)
    /\ \A id \in deleted : store[id] = NoDoc

C10_Witness ==
    /\ Overlapped("a", "b")
    /\ applied["a"].raw = [quantity |-> 5]
    /\ applied["b"].raw = [status |-> FALSE]
    /\ orig[applied["a"].id].raw.status = TRUE
    /\ store[applied["a"].id].quantity = 5
    /\ store[applied["a"].id].status = FALSE

==========================================================================
